---------------------------- MODULE Spec2Model ----------------------------
(***************************************************************************)
(* Model of the node-local subnet reconciliation pass of hybridnet         *)
(* (pkg/daemon/controller/subnet.go, subnetReconciler.Reconcile) and of    *)
(* the two per-family Route Managers it drives.                            *)
(*                                                                         *)
(* One pass is modelled statement by statement: every boundary call of     *)
(* Reconcile (List, Get, EnsureVlanIf, AddSubnetInfo, SyncRoutes, ...) is a *)
(* step, pc is the position of the pass in the source.  The calls of the   *)
(* current pass are recorded in the history variable calls.                *)
(***************************************************************************)
EXTENDS Integers, Sequences, FiniteSets, TLC

\* ------------------------------------------------------------------ bounds
\* longest Subnet list the store holds
MaxSubnets == 2
\* longest RemoteSubnet list the store holds
MaxRemoteSubnets == 1
\* how often the store's objects change between passes in one behaviour
MaxChanges == 1

\* ------------------------------------------------------- daemon configuration
\* r.ctrlHubRef.config.NodeName
NodeName == "node-1"
\* r.ctrlHubRef.config.NodeVlanIfName
NodeVlanIfName == "eth0"
\* r.ctrlHubRef.config.NodeVxlanIfName
NodeVxlanIfName == "eth1"

\* a nil *uint32 netID
Nil == -1

\* ------------------------------------------------------- the cluster objects
\* Addresses of one family are the numbers 0..11; a CIDR is the block lo..hi
\* of one family (fam = 0: the string is no CIDR at all).
Cidr(f, l, h) == [fam |-> f, lo |-> l, hi |-> h]

Range(v, c, g, s, e, x) ==
    [version |-> v, cidr |-> c, gateway |-> g, start |-> s, end |-> e, excludeIPs |-> x]

\* Network objects of the store: spec.type, spec.netID, status.nodeList
Networks ==
    [u1 |-> [type |-> "Underlay", netID |-> 10,  nodeList |-> <<"node-1">>],
     u2 |-> [type |-> "Underlay", netID |-> Nil, nodeList |-> <<"node-2">>],
     o1 |-> [type |-> "Overlay",  netID |-> 20,  nodeList |-> <<"node-2", "node-1">>],
     o2 |-> [type |-> "Overlay",  netID |-> Nil, nodeList |-> <<>>]]

\* Subnet objects the store may hold: spec.network, spec.netID, spec.range,
\* spec.autoNatOutgoing
SubnetObjects ==
    [s1 |-> [network |-> "u1", netID |-> Nil, autoNatOutgoing |-> TRUE,
             range |-> Range(4, Cidr(4, 0, 3), 1, 2, 3, {})],
     s2 |-> [network |-> "u2", netID |-> 11, autoNatOutgoing |-> TRUE,
             range |-> Range(6, Cidr(6, 0, 3), 1, 2, 3, {2})],
     s3 |-> [network |-> "o1", netID |-> 30, autoNatOutgoing |-> TRUE,
             range |-> Range(6, Cidr(6, 4, 7), 5, 5, 7, {})],
     s4 |-> [network |-> "o1", netID |-> Nil, autoNatOutgoing |-> FALSE,
             range |-> Range(4, Cidr(4, 4, 7), 5, 6, 7, {})],
     s5 |-> [network |-> "o2", netID |-> Nil, autoNatOutgoing |-> FALSE,
             range |-> Range(4, Cidr(4, 8, 11), 9, 9, 10, {})],
     s6 |-> [network |-> "u1", netID |-> 12, autoNatOutgoing |-> FALSE,
             range |-> Range(4, Cidr(4, 8, 11), 3, 9, 10, {})]]

SubnetNames == DOMAIN SubnetObjects

\* RemoteSubnet objects the store may hold: spec.range and the type tag
RemoteSubnetObjects ==
    [r1 |-> [type |-> "Underlay", range |-> Range(4, Cidr(4, 2, 5), 3, 3, 5, {})],
     r2 |-> [type |-> "Overlay",  range |-> Range(6, Cidr(6, 8, 11), 9, 9, 11, {})],
     r3 |-> [type |-> "Overlay",  range |-> Range(6, Cidr(4, 8, 11), 9, 9, 11, {})]]

RemoteSubnetNames == DOMAIN RemoteSubnetObjects

\* the lists without repetition, of length at most n, over the names S
ListsOver(S, n) ==
    {l \in UNION {[1..k -> S] : k \in 0..n} :
        \A a, b \in 1..Len(l) : a # b => l[a] # l[b]}

\* ------------------------------------------------------------ pure helpers
\* networkingv1.GetNetworkType
GetNetworkType(network) == network.type

\* networkingv1.GetRemoteSubnetType
GetRemoteSubnetType(remoteSubnet) == remoteSubnet.type

\* networkingv1.IsSubnetAutoNatOutgoing
IsSubnetAutoNatOutgoing(subnet) == subnet.autoNatOutgoing

InCidr(ip, c) == c.lo <= ip /\ ip <= c.hi

\* parseSubnetSpecRangeMeta: the canonical range, or err
parseSubnetSpecRangeMeta(range) ==
    LET c == range.cidr
        valid == /\ c.fam \in {4, 6}
                 /\ c.fam = range.version
                 /\ c.lo <= c.hi
                 /\ InCidr(range.gateway, c)
                 /\ range.start <= range.end
                 /\ InCidr(range.start, c)
                 /\ InCidr(range.end, c)
                 /\ \A x \in range.excludeIPs : InCidr(x, c)
    IN  [err |-> ~valid, subnetCidr |-> c, gatewayIP |-> range.gateway,
         startIP |-> range.start, endIP |-> range.end,
         excludeIPs |-> range.excludeIPs]

\* an interface name; NoIfName is the empty string
IfName(k, b, id) == [kind |-> k, base |-> b, id |-> id]
NoIfName == IfName("", "", Nil)

\* containernetwork.GenerateVxlanNetIfName: a pure naming function
GenerateVxlanNetIfName(base, netID) ==
    [err |-> netID = Nil,
     name |-> IF netID = Nil THEN NoIfName ELSE IfName("vxlan", base, netID)]

\* the name containernetwork.EnsureVlanIf gives the VLAN interface
GenerateVlanNetIfName(base, netID) ==
    [err |-> netID = Nil,
     name |-> IF netID = Nil THEN NoIfName ELSE IfName("vlan", base, netID)]

\* CtrlHub.getRouterManager: the family of the manager serving an IP version
getRouterManager(version) == IF version = 6 THEN 6 ELSE 4

\* ------------------------------------------------------------ Route Manager
\* route.Manager, the desired state of one family
EmptyManager == [subnetInfos |-> <<>>, remoteSubnetInfos |-> <<>>]

\* Manager.ResetInfos
ResetInfos(m) == EmptyManager

\* Manager.AddSubnetInfo
AddSubnetInfo(m, info) == [m EXCEPT !.subnetInfos = Append(@, info)]

Overlap(c, d) == c.fam = d.fam /\ c.lo <= d.hi /\ d.lo <= c.hi

\* Manager.AddRemoteSubnetInfo fails on a CIDR colliding with a registered one
RemoteSubnetConflict(m, info) ==
    \/ \E k \in 1..Len(m.subnetInfos) : Overlap(m.subnetInfos[k].cidr, info.cidr)
    \/ \E k \in 1..Len(m.remoteSubnetInfos) : Overlap(m.remoteSubnetInfos[k].cidr, info.cidr)

\* Manager.AddRemoteSubnetInfo
AddRemoteSubnetInfo(m, info) == [m EXCEPT !.remoteSubnetInfos = Append(@, info)]

\* the kernel routes Manager.SyncRoutes derives from the desired state
DesiredRoutes(m) ==
    {[cidr |-> m.subnetInfos[k].cidr, dev |-> m.subnetInfos[k].forwardNodeIfName,
      local |-> m.subnetInfos[k].isUnderlayLocal, remote |-> FALSE]
        : k \in 1..Len(m.subnetInfos)}
    \cup
    {[cidr |-> m.remoteSubnetInfos[k].cidr, dev |-> NoIfName,
      local |-> FALSE, remote |-> TRUE]
        : k \in 1..Len(m.remoteSubnetInfos)}

\* ------------------------------------------------------------------ state
VARIABLES
    subnets,            \* the store: names of the Subnet objects, in list order
    remoteSubnets,      \* the store: names of the RemoteSubnet objects
    multiCluster,       \* feature.MultiClusterEnabled()
    changes,            \* changes of the store so far
    routeV4Manager,     \* r.ctrlHubRef.routeV4Manager
    routeV6Manager,     \* r.ctrlHubRef.routeV6Manager
    routes,             \* the kernel's installed routes of each family
    links,              \* the host's VLAN interfaces
    pc,                 \* position of the pass in Reconcile
    subnetList,         \* subnetList.Items
    i,                  \* index of the range loop over subnetList.Items
    remoteSubnetList,   \* remoteSubnetList.Items
    j,                  \* index of the range loop over remoteSubnetList.Items
    result,             \* what Reconcile returned: reconcile.Result and error
    calls,              \* history: the calls of the current pass, in order
    atStart,            \* history: kernel routes and links when the pass began
    prev,               \* history: how the previous pass ended, where it is remembered
    observed            \* what a concurrent reader of a manager last saw

vars == <<subnets, remoteSubnets, multiCluster, changes, routeV4Manager,
          routeV6Manager, routes, links, pc, subnetList, i, remoteSubnetList,
          j, result, calls, atStart, prev, observed>>

store == <<subnets, remoteSubnets, multiCluster, changes>>
managers == <<routeV4Manager, routeV6Manager>>
kernel == <<routes, links>>
locals == <<subnetList, i, remoteSubnetList, j>>
aux == <<prev, observed>>

Families == {4, 6}

Manager(fam) == IF fam = 4 THEN routeV4Manager ELSE routeV6Manager

\* one call of the pass: the operation, the manager's family (0: none), the
\* object it is made for ("": none), and whether it returned without error
Call(op, fam, obj, ok) == [op |-> op, fam |-> fam, obj |-> obj, ok |-> ok]

\* no read of a manager yet
NoRead == [fam |-> 0, m |-> EmptyManager, pc |-> "", hasOld |-> FALSE, old |-> EmptyManager]

NoResult == [requeue |-> FALSE, err |-> "none"]
\* faulty variant of Requeue: the error is returned without the requeue
RequeueDropped(msg) == [requeue |-> FALSE, err |-> msg]

\* reconcile.Result{Requeue: true}, fmt.Errorf(...)
Requeue(msg) == [requeue |-> TRUE, err |-> msg]
\* reconcile.Result{}, nil
Success == [requeue |-> FALSE, err |-> ""]

Init ==
    /\ subnets \in ListsOver(SubnetNames, MaxSubnets)
    /\ remoteSubnets \in ListsOver(RemoteSubnetNames, MaxRemoteSubnets)
    /\ multiCluster \in BOOLEAN
    /\ changes = 0
    /\ routeV4Manager = EmptyManager
    /\ routeV6Manager = EmptyManager
    /\ routes = [f \in Families |-> {}]
    /\ links = {}
    /\ pc = "idle"
    /\ subnetList = <<>>
    /\ i = 1
    /\ remoteSubnetList = <<>>
    /\ j = 1
    /\ result = NoResult
    /\ calls = <<>>
    /\ atStart = [routes |-> routes, links |-> links]
    /\ prev = "none"
    /\ observed = NoRead

\* --------------------------------------------- the expressions of Reconcile
\* faulty variant of isUnderlayOnHost: the Network's type is not looked at
isUnderlayOnHostAnyType(network) ==
    \E n \in 1..Len(network.nodeList) : network.nodeList[n] = NodeName

\* lines 59-68: isUnderlayOnHost
isUnderlayOnHost(network) ==
    /\ GetNetworkType(network) = "Underlay"
    /\ \E n \in 1..Len(network.nodeList) : network.nodeList[n] = NodeName

\* faulty variant of netID: the Network's netID is taken when it is set
netIDOfNetworkFirst(subnet, network) ==
    IF network.netID = Nil THEN subnet.netID ELSE network.netID

\* lines 72-75: netID
netID(subnet, network) ==
    IF subnet.netID = Nil THEN network.netID ELSE subnet.netID

\* faulty variant of needsVlanIf: ensured for every underlay Subnet, member or not
needsVlanIfAnyNode(network) == GetNetworkType(network) = "Underlay"

\* lines 88-89: the VLAN interface is ensured for this subnet
needsVlanIf(network) ==
    GetNetworkType(network) = "Underlay" /\ isUnderlayOnHost(network)

\* lines 95-96: the vxlan interface name is generated for this subnet
needsVxlanIfName(network) == GetNetworkType(network) = "Overlay"

\* lines 84-102: forwardNodeIfName, when the naming call returned no error
forwardNodeIfName(subnet, network) ==
    IF needsVlanIf(network)
    THEN GenerateVlanNetIfName(NodeVlanIfName, netID(subnet, network)).name
    ELSE IF needsVxlanIfName(network)
    THEN GenerateVxlanNetIfName(NodeVxlanIfName, netID(subnet, network)).name
    ELSE NoIfName

\* lines 85, 100: isOverlay
isOverlay(network) == GetNetworkType(network) = "Overlay"

\* faulty variant of autoNatOutgoing: the Subnet's flag is read for every type
autoNatOutgoingAnyType(subnet, network) == IsSubnetAutoNatOutgoing(subnet)

\* lines 85, 101: autoNatOutgoing
autoNatOutgoing(subnet, network) ==
    IF GetNetworkType(network) = "Overlay"
    THEN IsSubnetAutoNatOutgoing(subnet)
    ELSE FALSE

\* lines 106-107: the arguments of AddSubnetInfo
SubnetInfo(subnet, network) ==
    LET meta == parseSubnetSpecRangeMeta(subnet.range)
    IN  [cidr |-> meta.subnetCidr, gateway |-> meta.gatewayIP,
         start |-> meta.startIP, end |-> meta.endIP,
         excludeIPs |-> meta.excludeIPs,
         forwardNodeIfName |-> forwardNodeIfName(subnet, network),
         autoNatOutgoing |-> autoNatOutgoing(subnet, network),
         isOverlay |-> isOverlay(network),
         isUnderlayLocal |-> isUnderlayOnHost(network)]

\* faulty variant of subnetRouteManager: every Subnet goes to the IPv4 manager
subnetRouteManagerV4(subnet) == getRouterManager(4)

\* line 105: the manager a Subnet's info goes to
subnetRouteManager(subnet) == getRouterManager(subnet.range.version)

\* line 126: isOverlay of a RemoteSubnet
remoteIsOverlay(remoteSubnet) == GetRemoteSubnetType(remoteSubnet) = "Overlay"

\* line 129: the arguments of AddRemoteSubnetInfo
RemoteSubnetInfo(remoteSubnet) ==
    LET meta == parseSubnetSpecRangeMeta(remoteSubnet.range)
    IN  [cidr |-> meta.subnetCidr, gateway |-> meta.gatewayIP,
         start |-> meta.startIP, end |-> meta.endIP,
         excludeIPs |-> meta.excludeIPs,
         isOverlay |-> remoteIsOverlay(remoteSubnet)]

\* line 128: the manager a RemoteSubnet's info goes to
remoteRouteManager(remoteSubnet) == getRouterManager(remoteSubnet.range.version)

\* faulty variant of reconcilesRemote: the feature toggle is not consulted
reconcilesRemoteAlways == TRUE

\* line 110: the remote subnets are reconciled
reconcilesRemote == multiCluster

\* faulty variant of syncsV6: the IPv6 manager is synced whatever the check says
syncsV6Always(globalDisabled) == TRUE

\* line 146: the IPv6 manager is synced
syncsV6(globalDisabled) == ~globalDisabled

\* ---------------------------------------------------------------- the pass
\* the Subnet and Network of the current iteration of the loop of line 53
subnetName == subnetList[i]
subnet == SubnetObjects[subnetName]
network == Networks[subnet.network]

\* the RemoteSubnet of the current iteration of the loop of line 118
remoteSubnetName == remoteSubnetList[j]
remoteSubnet == RemoteSubnetObjects[remoteSubnetName]

\* where the pass goes after the loop of line 53 (line 110)
afterSubnets == IF reconcilesRemote THEN "listRemote" ELSE "sync4"

\* where the pass goes with the loop of line 53 at index k
loopPc(k) == IF k <= Len(subnetList) THEN "loop" ELSE afterSubnets

\* where the pass goes with the loop of line 118 at index k, the list being l
remoteLoopPc(l, k) == IF k <= Len(l) THEN "remoteLoop" ELSE "sync4"

\* return reconcile.Result{Requeue: true}, err after the calls cs
Abort(cs, msg) ==
    /\ calls' = calls \o cs
    /\ result' = Requeue(msg)
    /\ pc' = "done"

\* faulty variant of ListSubnetsFails: the managers are reset before the List
ListSubnetsFailsAfterReset ==
    /\ pc = "idle"
    /\ atStart' = [routes |-> routes, links |-> links]
    /\ routeV4Manager' = ResetInfos(routeV4Manager)
    /\ routeV6Manager' = ResetInfos(routeV6Manager)
    /\ calls' = <<Call("List", 0, "", FALSE)>>
    /\ result' = Requeue("failed to list subnet")
    /\ pc' = "done"
    /\ UNCHANGED <<store, kernel, locals>>
    /\ UNCHANGED aux

\* lines 45-48: r.List fails
ListSubnetsFails ==
    /\ pc = "idle"
    /\ atStart' = [routes |-> routes, links |-> links]
    /\ calls' = <<Call("List", 0, "", FALSE)>>
    /\ result' = Requeue("failed to list subnet")
    /\ pc' = "done"
    /\ UNCHANGED <<store, managers, kernel, locals>>
    /\ UNCHANGED aux

\* lines 45-48: r.List returns the store's Subnet objects
ListSubnets ==
    /\ pc = "idle"
    /\ atStart' = [routes |-> routes, links |-> links]
    /\ calls' = <<Call("List", 0, "", TRUE)>>
    /\ subnetList' = subnets
    /\ pc' = "reset"
    /\ UNCHANGED <<store, managers, kernel, i, remoteSubnetList, j, result>>
    /\ UNCHANGED aux

\* faulty variant of ResetManagers: the IPv6 manager is not reset
ResetManagersV4Only ==
    /\ pc = "reset"
    /\ routeV4Manager' = ResetInfos(routeV4Manager)
    /\ calls' = Append(calls, Call("ResetInfos", 4, "", TRUE))
    /\ pc' = loopPc(1)
    /\ UNCHANGED <<store, routeV6Manager, kernel, locals, result, atStart>>
    /\ UNCHANGED aux

\* faulty variant of ResetManagers: the pass stages on top of the previous pass's infos
ResetManagersSkipped ==
    /\ pc = "reset"
    /\ calls' = calls \o <<Call("ResetInfos", 4, "", TRUE), Call("ResetInfos", 6, "", TRUE)>>
    /\ pc' = loopPc(1)
    /\ UNCHANGED <<store, managers, kernel, locals, result, atStart>>
    /\ UNCHANGED aux

\* lines 50-51: ResetInfos of both managers
ResetManagers ==
    /\ pc = "reset"
    /\ routeV4Manager' = ResetInfos(routeV4Manager)
    /\ routeV6Manager' = ResetInfos(routeV6Manager)
    /\ calls' = calls \o <<Call("ResetInfos", 4, "", TRUE), Call("ResetInfos", 6, "", TRUE)>>
    /\ pc' = loopPc(1)
    /\ UNCHANGED <<store, kernel, locals, result, atStart>>
    /\ UNCHANGED aux

\* the calls of one iteration up to the parse of the range
GetCall(ok) == Call("Get", 0, subnetName, ok)
ParseCall(name, ok) == Call("parseSubnetSpecRangeMeta", 0, name, ok)

\* lines 54-57: r.Get of the Subnet's Network fails
GetNetworkFails ==
    /\ pc = "loop"
    /\ Abort(<<GetCall(FALSE)>>, "failed to get network for subnet")
    /\ UNCHANGED <<store, managers, kernel, locals, atStart>>
    /\ UNCHANGED aux

\* faulty variant of ParseSubnetFails: the malformed Subnet is skipped, the loop goes on
ParseSubnetFailsSkips ==
    /\ pc = "loop"
    /\ parseSubnetSpecRangeMeta(subnet.range).err
    /\ calls' = calls \o <<GetCall(TRUE), ParseCall(subnetName, FALSE)>>
    /\ i' = i + 1
    /\ pc' = loopPc(i + 1)
    /\ UNCHANGED <<store, managers, kernel, subnetList, remoteSubnetList, j,
                   result, atStart>>
    /\ UNCHANGED aux

\* lines 77-82: the Subnet's range does not parse
ParseSubnetFails ==
    /\ pc = "loop"
    /\ parseSubnetSpecRangeMeta(subnet.range).err
    /\ Abort(<<GetCall(TRUE), ParseCall(subnetName, FALSE)>>,
             "failed to parse subnet spec range meta")
    /\ UNCHANGED <<store, managers, kernel, locals, atStart>>
    /\ UNCHANGED aux

\* lines 88-93: EnsureVlanIf fails (an invalid tag, or the kernel refuses)
EnsureVlanIfFails ==
    /\ pc = "loop"
    /\ ~parseSubnetSpecRangeMeta(subnet.range).err
    /\ needsVlanIf(network)
    /\ Abort(<<GetCall(TRUE), ParseCall(subnetName, TRUE),
               Call("EnsureVlanIf", 0, subnetName, FALSE)>>,
             "failed to ensure vlan forward node interface")
    /\ UNCHANGED <<store, managers, kernel, locals, atStart>>
    /\ UNCHANGED aux

\* lines 95-99: GenerateVxlanNetIfName fails
GenerateVxlanNetIfNameFails ==
    /\ pc = "loop"
    /\ ~parseSubnetSpecRangeMeta(subnet.range).err
    /\ needsVxlanIfName(network)
    /\ GenerateVxlanNetIfName(NodeVxlanIfName, netID(subnet, network)).err
    /\ Abort(<<GetCall(TRUE), ParseCall(subnetName, TRUE),
               Call("GenerateVxlanNetIfName", 0, subnetName, FALSE)>>,
             "failed to generate vxlan forward node if name")
    /\ UNCHANGED <<store, managers, kernel, locals, atStart>>
    /\ UNCHANGED aux

\* the interface call of an iteration that succeeds
IfCalls ==
    IF needsVlanIf(network) THEN <<Call("EnsureVlanIf", 0, subnetName, TRUE)>>
    ELSE IF needsVxlanIfName(network)
    THEN <<Call("GenerateVxlanNetIfName", 0, subnetName, TRUE)>>
    ELSE <<>>

\* containernetwork.EnsureVlanIf: the links once the interface exists
EnsureVlanIf(ls, base, id) == ls \cup {GenerateVlanNetIfName(base, id).name}

\* lines 54-107: one iteration of the loop over the Subnets, without error
AddSubnet ==
    /\ pc = "loop"
    /\ ~parseSubnetSpecRangeMeta(subnet.range).err
    /\ needsVlanIf(network) =>
           ~GenerateVlanNetIfName(NodeVlanIfName, netID(subnet, network)).err
    /\ needsVxlanIfName(network) =>
           ~GenerateVxlanNetIfName(NodeVxlanIfName, netID(subnet, network)).err
    /\ links' = IF needsVlanIf(network)
                THEN EnsureVlanIf(links, NodeVlanIfName, netID(subnet, network))
                ELSE links
    /\ LET fam == subnetRouteManager(subnet)
           info == SubnetInfo(subnet, network)
       IN  /\ routeV4Manager' = IF fam = 4 THEN AddSubnetInfo(routeV4Manager, info)
                                ELSE routeV4Manager
           /\ routeV6Manager' = IF fam = 6 THEN AddSubnetInfo(routeV6Manager, info)
                                ELSE routeV6Manager
           /\ calls' = calls \o <<GetCall(TRUE), ParseCall(subnetName, TRUE)>>
                             \o IfCalls
                             \o <<Call("AddSubnetInfo", fam, subnetName, TRUE)>>
    /\ i' = i + 1
    /\ pc' = loopPc(i + 1)
    /\ UNCHANGED <<store, routes, subnetList, remoteSubnetList, j, result, atStart>>
    /\ UNCHANGED aux

\* lines 113-116: r.List of the RemoteSubnets fails
ListRemoteSubnetsFails ==
    /\ pc = "listRemote"
    /\ Abort(<<Call("ListRemote", 0, "", FALSE)>>, "failed to list remote subnet")
    /\ UNCHANGED <<store, managers, kernel, locals, atStart>>
    /\ UNCHANGED aux

\* lines 113-116: r.List returns the store's RemoteSubnet objects
ListRemoteSubnets ==
    /\ pc = "listRemote"
    /\ remoteSubnetList' = remoteSubnets
    /\ calls' = Append(calls, Call("ListRemote", 0, "", TRUE))
    /\ pc' = remoteLoopPc(remoteSubnets, 1)
    /\ UNCHANGED <<store, managers, kernel, subnetList, i, j, result, atStart>>
    /\ UNCHANGED aux

\* lines 119-124: the RemoteSubnet's range does not parse
ParseRemoteSubnetFails ==
    /\ pc = "remoteLoop"
    /\ parseSubnetSpecRangeMeta(remoteSubnet.range).err
    /\ Abort(<<ParseCall(remoteSubnetName, FALSE)>>,
             "failed to parse subnet spec range meta")
    /\ UNCHANGED <<store, managers, kernel, locals, atStart>>
    /\ UNCHANGED aux

\* faulty variant of AddRemoteSubnetFails: the error is dropped, the loop goes on
AddRemoteSubnetFailsIgnored ==
    /\ pc = "remoteLoop"
    /\ ~parseSubnetSpecRangeMeta(remoteSubnet.range).err
    /\ LET fam == remoteRouteManager(remoteSubnet)
       IN  /\ RemoteSubnetConflict(Manager(fam), RemoteSubnetInfo(remoteSubnet))
           /\ calls' = calls \o <<ParseCall(remoteSubnetName, TRUE),
                                  Call("AddRemoteSubnetInfo", fam, remoteSubnetName, FALSE)>>
    /\ j' = j + 1
    /\ pc' = remoteLoopPc(remoteSubnetList, j + 1)
    /\ UNCHANGED <<store, managers, kernel, subnetList, i, remoteSubnetList,
                   result, atStart>>
    /\ UNCHANGED aux

\* lines 128-133: AddRemoteSubnetInfo returns an error
AddRemoteSubnetFails ==
    /\ pc = "remoteLoop"
    /\ ~parseSubnetSpecRangeMeta(remoteSubnet.range).err
    /\ LET fam == remoteRouteManager(remoteSubnet)
       IN  /\ RemoteSubnetConflict(Manager(fam), RemoteSubnetInfo(remoteSubnet))
           /\ Abort(<<ParseCall(remoteSubnetName, TRUE),
                      Call("AddRemoteSubnetInfo", fam, remoteSubnetName, FALSE)>>,
                    "failed to add remote subnet info")
    /\ UNCHANGED <<store, managers, kernel, locals, atStart>>
    /\ UNCHANGED aux

\* lines 118-134: one iteration of the loop over the RemoteSubnets, without error
AddRemoteSubnet ==
    /\ pc = "remoteLoop"
    /\ ~parseSubnetSpecRangeMeta(remoteSubnet.range).err
    /\ LET fam == remoteRouteManager(remoteSubnet)
           info == RemoteSubnetInfo(remoteSubnet)
       IN  /\ ~RemoteSubnetConflict(Manager(fam), info)
           /\ routeV4Manager' = IF fam = 4 THEN AddRemoteSubnetInfo(routeV4Manager, info)
                                ELSE routeV4Manager
           /\ routeV6Manager' = IF fam = 6 THEN AddRemoteSubnetInfo(routeV6Manager, info)
                                ELSE routeV6Manager
           /\ calls' = calls \o <<ParseCall(remoteSubnetName, TRUE),
                                  Call("AddRemoteSubnetInfo", fam, remoteSubnetName, TRUE)>>
    /\ j' = j + 1
    /\ pc' = remoteLoopPc(remoteSubnetList, j + 1)
    /\ UNCHANGED <<store, kernel, subnetList, i, remoteSubnetList, result, atStart>>
    /\ UNCHANGED aux

\* Manager.SyncRoutes without error: the installed routes are the desired ones
SyncRoutes(m, installed) == DesiredRoutes(m)

\* Manager.SyncRoutes with an error: some of the additions and removals of
\* the delta were applied
SyncRoutesPartial(m, installed) ==
    {(installed \ R) \cup A : R \in SUBSET (installed \ DesiredRoutes(m)),
                              A \in SUBSET (DesiredRoutes(m) \ installed)}

\* faulty variant of SyncRoutesV4: SyncRoutes is called only when something
\* was registered
SyncRoutesV4SkipsEmpty ==
    /\ pc = "sync4"
    /\ IF routeV4Manager = EmptyManager
       THEN UNCHANGED <<routes, calls>>
       ELSE /\ routes' = [routes EXCEPT ![4] = SyncRoutes(routeV4Manager, routes[4])]
            /\ calls' = Append(calls, Call("SyncRoutes", 4, "", TRUE))
    /\ pc' = "check6"
    /\ UNCHANGED <<store, managers, links, locals, result, atStart>>
    /\ UNCHANGED aux

\* lines 137-139: SyncRoutes of the IPv4 manager returns no error
SyncRoutesV4 ==
    /\ pc = "sync4"
    /\ routes' = [routes EXCEPT ![4] = SyncRoutes(routeV4Manager, routes[4])]
    /\ calls' = Append(calls, Call("SyncRoutes", 4, "", TRUE))
    /\ pc' = "check6"
    /\ UNCHANGED <<store, managers, links, locals, result, atStart>>
    /\ UNCHANGED aux

\* faulty variant of SyncRoutesV4Fails: the error is dropped, the pass goes on
SyncRoutesV4FailsIgnored ==
    /\ pc = "sync4"
    /\ \E rs \in SyncRoutesPartial(routeV4Manager, routes[4]) :
           routes' = [routes EXCEPT ![4] = rs]
    /\ calls' = Append(calls, Call("SyncRoutes", 4, "", FALSE))
    /\ pc' = "check6"
    /\ UNCHANGED <<store, managers, links, locals, result, atStart>>
    /\ UNCHANGED aux

\* lines 137-139: SyncRoutes of the IPv4 manager fails
SyncRoutesV4Fails ==
    /\ pc = "sync4"
    /\ \E rs \in SyncRoutesPartial(routeV4Manager, routes[4]) :
           routes' = [routes EXCEPT ![4] = rs]
    /\ Abort(<<Call("SyncRoutes", 4, "", FALSE)>>, "failed to sync ipv4 routes")
    /\ UNCHANGED <<store, managers, links, locals, atStart>>
    /\ UNCHANGED aux

\* lines 141-144: CheckIPv6GlobalDisabled fails
CheckIPv6GlobalDisabledFails ==
    /\ pc = "check6"
    /\ Abort(<<Call("CheckIPv6GlobalDisabled", 0, "", FALSE)>>,
             "failed to check ipv6 global disabled")
    /\ UNCHANGED <<store, managers, kernel, locals, atStart>>
    /\ UNCHANGED aux

\* lines 141-146: CheckIPv6GlobalDisabled answers
CheckIPv6GlobalDisabled ==
    /\ pc = "check6"
    /\ \E globalDisabled \in BOOLEAN :
        /\ calls' = Append(calls, Call("CheckIPv6GlobalDisabled", 0,
                               IF globalDisabled THEN "disabled" ELSE "enabled", TRUE))
        /\ pc' = IF syncsV6(globalDisabled) THEN "sync6" ELSE "trigger"
    /\ UNCHANGED <<store, managers, kernel, locals, result, atStart>>
    /\ UNCHANGED aux

\* lines 147-149: SyncRoutes of the IPv6 manager returns no error
SyncRoutesV6 ==
    /\ pc = "sync6"
    /\ routes' = [routes EXCEPT ![6] = SyncRoutes(routeV6Manager, routes[6])]
    /\ calls' = Append(calls, Call("SyncRoutes", 6, "", TRUE))
    /\ pc' = "trigger"
    /\ UNCHANGED <<store, managers, links, locals, result, atStart>>
    /\ UNCHANGED aux

\* faulty variant of SyncRoutesV6Fails: the collaborator is signalled before
\* the error is returned
SyncRoutesV6FailsTriggers ==
    /\ pc = "sync6"
    /\ \E rs \in SyncRoutesPartial(routeV6Manager, routes[6]) :
           routes' = [routes EXCEPT ![6] = rs]
    /\ Abort(<<Call("SyncRoutes", 6, "", FALSE), Call("iptablesSyncTrigger", 0, "", TRUE)>>,
             "failed to sync ipv6 routes")
    /\ UNCHANGED <<store, managers, links, locals, atStart>>
    /\ UNCHANGED aux

\* lines 147-149: SyncRoutes of the IPv6 manager fails
SyncRoutesV6Fails ==
    /\ pc = "sync6"
    /\ \E rs \in SyncRoutesPartial(routeV6Manager, routes[6]) :
           routes' = [routes EXCEPT ![6] = rs]
    /\ Abort(<<Call("SyncRoutes", 6, "", FALSE)>>, "failed to sync ipv6 routes")
    /\ UNCHANGED <<store, managers, links, locals, atStart>>
    /\ UNCHANGED aux

\* lines 152-154: iptablesSyncTrigger, return reconcile.Result{}, nil
TriggerAndReturn ==
    /\ pc = "trigger"
    /\ calls' = Append(calls, Call("iptablesSyncTrigger", 0, "", TRUE))
    /\ result' = Success
    /\ pc' = "done"
    /\ UNCHANGED <<store, managers, kernel, locals, atStart>>
    /\ UNCHANGED aux

\* Reconcile has returned: the work queue takes the result (a request to
\* requeue puts the pass back on the queue), the locals of the pass are gone
ReturnToQueue ==
    /\ pc = "done"
    /\ pc' = "idle"
    /\ subnetList' = <<>>
    /\ i' = 1
    /\ remoteSubnetList' = <<>>
    /\ j' = 1
    /\ result' = NoResult
    /\ calls' = <<>>
    /\ atStart' = [routes |-> routes, links |-> links]
    /\ observed' = NoRead
    /\ UNCHANGED <<store, managers, kernel>>

\* faulty variant of Returned: a pass that returned an error is not run again
ReturnedOnlyOnSuccess == result = Success /\ ReturnToQueue /\ UNCHANGED prev

\* Reconcile has returned
Returned == ReturnToQueue /\ UNCHANGED prev

\* Reconcile has returned, and how the pass ended is remembered: with an
\* error, or with success and the IPv6 manager synced or skipped
ReturnedRemembered ==
    /\ ReturnToQueue
    /\ prev' = IF result # Success THEN "none"
               ELSE IF \E k \in 1..Len(calls) : /\ calls[k].op = "SyncRoutes"
                                                /\ calls[k].fam = 6
                                                /\ calls[k].ok
               THEN "both"
               ELSE "v4"

\* ------------------------------------------------------------- environment
\* between two passes a Subnet object is created
CreateSubnet ==
    /\ pc = "idle"
    /\ changes < MaxChanges
    /\ Len(subnets) < MaxSubnets
    /\ \E s \in SubnetNames :
        /\ \A k \in 1..Len(subnets) : subnets[k] # s
        /\ subnets' = Append(subnets, s)
    /\ changes' = changes + 1
    /\ UNCHANGED <<remoteSubnets, multiCluster, managers, kernel, pc, locals,
                   result, calls, atStart>>
    /\ UNCHANGED aux

\* between two passes a Subnet object is deleted
DeleteSubnet ==
    /\ pc = "idle"
    /\ changes < MaxChanges
    /\ \E k \in 1..Len(subnets) :
        subnets' = [n \in 1..(Len(subnets) - 1) |->
                       IF n < k THEN subnets[n] ELSE subnets[n + 1]]
    /\ changes' = changes + 1
    /\ UNCHANGED <<remoteSubnets, multiCluster, managers, kernel, pc, locals,
                   result, calls, atStart>>
    /\ UNCHANGED aux

\* between two passes a RemoteSubnet object is created
CreateRemoteSubnet ==
    /\ pc = "idle"
    /\ changes < MaxChanges
    /\ Len(remoteSubnets) < MaxRemoteSubnets
    /\ \E s \in RemoteSubnetNames :
        /\ \A k \in 1..Len(remoteSubnets) : remoteSubnets[k] # s
        /\ remoteSubnets' = Append(remoteSubnets, s)
    /\ changes' = changes + 1
    /\ UNCHANGED <<subnets, multiCluster, managers, kernel, pc, locals,
                   result, calls, atStart>>
    /\ UNCHANGED aux

\* between two passes a RemoteSubnet object is deleted
DeleteRemoteSubnet ==
    /\ pc = "idle"
    /\ changes < MaxChanges
    /\ \E k \in 1..Len(remoteSubnets) :
        remoteSubnets' = [n \in 1..(Len(remoteSubnets) - 1) |->
                             IF n < k THEN remoteSubnets[n] ELSE remoteSubnets[n + 1]]
    /\ changes' = changes + 1
    /\ UNCHANGED <<subnets, multiCluster, managers, kernel, pc, locals,
                   result, calls, atStart>>
    /\ UNCHANGED aux

Next ==
    \/ ListSubnetsFails
    \/ ListSubnets
    \/ ResetManagers
    \/ GetNetworkFails
    \/ ParseSubnetFails
    \/ EnsureVlanIfFails
    \/ GenerateVxlanNetIfNameFails
    \/ AddSubnet
    \/ ListRemoteSubnetsFails
    \/ ListRemoteSubnets
    \/ ParseRemoteSubnetFails
    \/ AddRemoteSubnetFails
    \/ AddRemoteSubnet
    \/ SyncRoutesV4
    \/ SyncRoutesV4Fails
    \/ CheckIPv6GlobalDisabledFails
    \/ CheckIPv6GlobalDisabled
    \/ SyncRoutesV6
    \/ SyncRoutesV6Fails
    \/ TriggerAndReturn
    \/ Returned
    \/ CreateSubnet
    \/ DeleteSubnet
    \/ CreateRemoteSubnet
    \/ DeleteRemoteSubnet

Spec == Init /\ [][Next]_vars

\* a component other than the reconciler reads the desired state of one
\* manager; Reconcile holds no lock from ResetInfos (lines 50-51) to
\* SyncRoutes (lines 137, 147) nor to any of its returns, so the read may
\* fall between any two calls of the pass. The reader keeps what it read of
\* the same manager before the pass reset it (old), when it did.
ReadInfos ==
    /\ \E f \in Families :
           observed' =
               [fam |-> f, m |-> Manager(f), pc |-> pc,
                hasOld |-> pc \in {"idle", "reset"} \/ (observed.fam = f /\ observed.hasOld),
                old |-> IF pc \in {"idle", "reset"} THEN Manager(f)
                        ELSE IF observed.fam = f /\ observed.hasOld THEN observed.old
                        ELSE EmptyManager]
    /\ UNCHANGED <<store, managers, kernel, locals, pc, result, calls, atStart, prev>>

\* the reconciler together with a reader of the managers
ReaderNext == Next \/ ReadInfos

ReaderSpec == Init /\ [][ReaderNext]_vars

\* the steps of one pass, from the listing of the Subnets to the return
Pass ==
    \/ ListSubnetsFails
    \/ ListSubnets
    \/ ResetManagers
    \/ GetNetworkFails
    \/ ParseSubnetFails
    \/ EnsureVlanIfFails
    \/ GenerateVxlanNetIfNameFails
    \/ AddSubnet
    \/ ListRemoteSubnetsFails
    \/ ListRemoteSubnets
    \/ ParseRemoteSubnetFails
    \/ AddRemoteSubnetFails
    \/ AddRemoteSubnet
    \/ SyncRoutesV4
    \/ SyncRoutesV4Fails
    \/ CheckIPv6GlobalDisabledFails
    \/ CheckIPv6GlobalDisabled
    \/ SyncRoutesV6
    \/ SyncRoutesV6Fails
    \/ TriggerAndReturn

\* the work queue runs the reconciler: a pass that has begun takes its next
\* step, a pass that has returned goes back to the queue and is run again
LiveSpec == Spec /\ WF_vars(Pass \/ Returned)

\* passes in succession over a store that does not change, each pass
\* remembering how the one before it ended
SuccessiveNext == Pass \/ ReturnedRemembered

SuccessiveSpec == Init /\ [][SuccessiveNext]_vars

\* ------------------------------------------------------- reading the history
\* the positions of the calls of op on the manager of family fam (0: no manager)
CallsOf(op, fam) == {k \in 1..Len(calls) : calls[k].op = op /\ calls[k].fam = fam}

\* the positions of the calls of op, whatever the manager
CallsOfOp(op) == {k \in 1..Len(calls) : calls[k].op = op}

\* SyncRoutes of family fam returned without error in this pass
Synced(fam) == \E k \in CallsOf("SyncRoutes", fam) : calls[k].ok

\* the staging steps of a pass (steps 1-5 of the loop)
StagingOps == {"List", "Get", "parseSubnetSpecRangeMeta", "EnsureVlanIf",
               "GenerateVxlanNetIfName", "ListRemote", "AddRemoteSubnetInfo"}

StagingFailed == \E k \in 1..Len(calls) : calls[k].op \in StagingOps /\ ~calls[k].ok

\* the pass has returned an error
PassFailed == pc = "done" /\ result.requeue /\ result.err # ""

\* the pass has returned without error
PassSucceeded == pc = "done" /\ result = Success

\* the last call of the pass so far
LastCall == calls[Len(calls)]

\* ---------------------------------------------------------------- claims
\* C1: in every pass SyncRoutes of either manager is called only after all
\* staging steps succeeded for both families: every listed Subnet (and, with
\* federation, every listed RemoteSubnet) was staged before the call, and a
\* pass in which a staging step failed calls neither SyncRoutes.
C1_SyncOnlyAfterStaging ==
    /\ StagingFailed => CallsOfOp("SyncRoutes") = {}
    /\ \A k \in CallsOfOp("SyncRoutes") :
        /\ \A m \in 1..(k - 1) : calls[m].op \in StagingOps => calls[m].ok
        /\ \A n \in 1..Len(subnetList) :
               \E m \in 1..(k - 1) : /\ calls[m].op = "AddSubnetInfo"
                                     /\ calls[m].obj = subnetList[n]
        /\ multiCluster =>
            /\ \E m \in 1..(k - 1) : calls[m].op = "ListRemote" /\ calls[m].ok
            /\ remoteSubnetList = remoteSubnets
            /\ \A n \in 1..Len(remoteSubnetList) :
                   \E m \in 1..(k - 1) : /\ calls[m].op = "AddRemoteSubnetInfo"
                                         /\ calls[m].obj = remoteSubnetList[n]
                                         /\ calls[m].ok

\* a pass that staged a Subnet and then failed in a later staging step
C1_Witness ==
    /\ PassFailed
    /\ StagingFailed
    /\ CallsOfOp("AddSubnetInfo") # {}
    /\ LastCall.op \in {"parseSubnetSpecRangeMeta", "AddRemoteSubnetInfo"}

\* C2 as claimed: a pass that ends in an error never has one family's kernel
\* routes converged to the new desired state by that pass while the other
\* family's are not.
C2_NoPartialRoutingState ==
    PassFailed =>
        /\ ~(Synced(4) /\ routes[6] # DesiredRoutes(routeV6Manager))
        /\ ~(Synced(6) /\ routes[4] # DesiredRoutes(routeV4Manager))

\* C2 amended: a failing pass never has the IPv6 routes converged by that pass;
\* it has the IPv4 routes converged by that pass exactly when it failed at the
\* IPv6 capability check or in the IPv6 SyncRoutes, and then the IPv6 routes
\* are not; the routes of a family whose SyncRoutes was not called are
\* untouched.
C2_PartialOnlyAfterV4 ==
    /\ PassFailed =>
        /\ ~Synced(6)
        /\ Synced(4) <=> /\ ~LastCall.ok
                         /\ \/ LastCall.op = "CheckIPv6GlobalDisabled"
                            \/ LastCall.op = "SyncRoutes" /\ LastCall.fam = 6
    /\ \A f \in Families :
           CallsOf("SyncRoutes", f) = {} => routes[f] = atStart.routes[f]

\* a pass failed with the IPv4 routes changed to the new desired state and the
\* IPv6 routes short of theirs
C2_Witness ==
    /\ PassFailed
    /\ Synced(4)
    /\ routes[4] # atStart.routes[4]
    /\ routes[4] = DesiredRoutes(routeV4Manager)
    /\ routes[6] # DesiredRoutes(routeV6Manager)

\* a RemoteSubnet's registration failed on a CIDR of a registered local Subnet
RemoteCollidedWithLocal ==
    \E k \in CallsOfOp("AddRemoteSubnetInfo") :
        /\ ~calls[k].ok
        /\ \E n \in 1..Len(Manager(calls[k].fam).subnetInfos) :
               Overlap(Manager(calls[k].fam).subnetInfos[n].cidr,
                       RemoteSubnetObjects[calls[k].obj].range.cidr)

\* the VLAN interfaces the pass has ensured so far
EnsuredLinks ==
    {GenerateVlanNetIfName(NodeVlanIfName,
                           netID(SubnetObjects[calls[k].obj],
                                 Networks[SubnetObjects[calls[k].obj].network])).name
        : k \in {m \in CallsOfOp("EnsureVlanIf") : calls[m].ok}}

\* C3 as claimed: a pass aborted by a RemoteSubnet colliding with a local
\* Subnet has modified no kernel state: no route added or removed, no
\* interface created.
C3_NoKernelChange ==
    RemoteCollidedWithLocal =>
        /\ routes = atStart.routes
        /\ links = atStart.links

\* C3 amended: a pass in which a RemoteSubnet collides with a local Subnet
\* aborts there, calls no SyncRoutes and adds or removes no route; the only
\* kernel state it has changed are the VLAN interfaces ensured for the
\* underlay Subnets local to this node that it processed before.
C3_NoRouteChange ==
    RemoteCollidedWithLocal =>
        /\ pc = "done" /\ result.requeue /\ ~LastCall.ok
        /\ LastCall.op = "AddRemoteSubnetInfo"
        /\ CallsOfOp("SyncRoutes") = {}
        /\ routes = atStart.routes
        /\ links = atStart.links \cup EnsuredLinks

\* the collision aborted a pass that had created a VLAN interface
C3_Witness ==
    /\ RemoteCollidedWithLocal
    /\ pc = "done"
    /\ links # atStart.links
    /\ atStart.routes[4] # {}

\* C4 as claimed: in every pass ResetInfos is called exactly once on each
\* manager, before any AddSubnetInfo or AddRemoteSubnetInfo call.
C4_ResetOncePerPass ==
    pc = "done" =>
        \A f \in Families :
            /\ Cardinality(CallsOf("ResetInfos", f)) = 1
            /\ \A k \in CallsOfOp("AddSubnetInfo") \cup CallsOfOp("AddRemoteSubnetInfo") :
                   \A r \in CallsOf("ResetInfos", f) : r < k

\* C4 amended: in every pass whose listing of the Subnets succeeds, ResetInfos
\* is called exactly once on each manager, right after the listing and before
\* any AddSubnetInfo or AddRemoteSubnetInfo call; a pass whose listing fails
\* calls it on neither.
C4_ResetOnceAfterList ==
    \A f \in Families :
        /\ Cardinality(CallsOf("ResetInfos", f)) <= 1
        /\ \A k \in CallsOfOp("AddSubnetInfo") \cup CallsOfOp("AddRemoteSubnetInfo") :
               \E r \in CallsOf("ResetInfos", f) : r < k
        /\ \A r \in CallsOf("ResetInfos", f) :
               /\ r \in {2, 3}
               /\ calls[1].op = "List" /\ calls[1].ok
        /\ (pc \notin {"idle", "reset"} /\ calls[1].ok) =>
               Cardinality(CallsOf("ResetInfos", f)) = 1
        /\ (pc = "done" /\ ~calls[1].ok) => CallsOf("ResetInfos", f) = {}

\* a pass that reset both managers and then staged a Subnet and a RemoteSubnet
C4_Witness ==
    /\ PassSucceeded
    /\ CallsOf("ResetInfos", 4) # {} /\ CallsOf("ResetInfos", 6) # {}
    /\ CallsOfOp("AddSubnetInfo") # {}
    /\ \E k \in CallsOfOp("AddRemoteSubnetInfo") : calls[k].ok


\* the SubnetInfo the manager holds for the AddSubnetInfo call at position k
InfoOfCall(k) ==
    LET f == calls[k].fam
        n == Cardinality({m \in CallsOf("AddSubnetInfo", f) : m <= k})
    IN  Manager(f).subnetInfos[n]

\* the Subnet and the Network of the call at position k
SubnetOfCall(k) == SubnetObjects[calls[k].obj]
NetworkOfCall(k) == Networks[SubnetOfCall(k).network]

\* this node's name is in the Network's nodeList
NodeIsMember(net) == NodeName \in {net.nodeList[n] : n \in 1..Len(net.nodeList)}

\* the infos the listed objects of family f give, in list order
ExpectedManager(f) ==
    LET own == SelectSeq(subnetList, LAMBDA s : SubnetObjects[s].range.version = f)
        remote == IF multiCluster
                  THEN SelectSeq(remoteSubnetList,
                                 LAMBDA r : RemoteSubnetObjects[r].range.version = f)
                  ELSE <<>>
    IN  [subnetInfos |->
            [n \in 1..Len(own) |->
                SubnetInfo(SubnetObjects[own[n]], Networks[SubnetObjects[own[n]].network])],
         remoteSubnetInfos |->
            [n \in 1..Len(remote) |-> RemoteSubnetInfo(RemoteSubnetObjects[remote[n]])]]

\* C5: full rebuild: whenever SyncRoutes is called on a manager, its desired
\* set holds exactly one SubnetInfo per Subnet of its IP version listed in the
\* current pass, plus one RemoteSubnetInfo per listed RemoteSubnet of its
\* version when federation is enabled, and nothing staged by an earlier pass.
C5_FullRebuild ==
    \A f \in Families :
        CallsOf("SyncRoutes", f) # {} =>
            /\ Manager(f) = ExpectedManager(f)
            /\ Len(Manager(f).subnetInfos) = Cardinality(CallsOf("AddSubnetInfo", f))
            /\ Len(Manager(f).remoteSubnetInfos) =
                   Cardinality({k \in CallsOf("AddRemoteSubnetInfo", f) : calls[k].ok})

\* SyncRoutes called on a rebuilt IPv4 manager after the store changed, with
\* the routes of the earlier pass's desired state still installed
C5_Witness ==
    /\ changes = 1
    /\ CallsOf("SyncRoutes", 4) # {}
    /\ Len(routeV4Manager.subnetInfos) >= 1
    /\ atStart.routes[4] # {}
    /\ atStart.routes[4] # DesiredRoutes(routeV4Manager)

\* C6: a pass whose staging succeeds calls SyncRoutes on the IPv4 manager
\* unconditionally and on the IPv6 manager iff the capability check reports
\* IPv6 not globally disabled; when it is disabled the IPv6 SyncRoutes is
\* skipped, the pass returns success and the IPv4 manager has been synced.
C6_SyncV4AlwaysV6IfEnabled ==
    /\ pc \in {"check6", "sync6", "trigger"} \/ PassSucceeded => Synced(4)
    /\ \A k \in CallsOfOp("CheckIPv6GlobalDisabled") :
        /\ \E m \in CallsOf("SyncRoutes", 4) : m < k /\ calls[m].ok
        /\ calls[k].obj = "disabled" =>
            /\ CallsOf("SyncRoutes", 6) = {}
            /\ pc \in {"trigger", "done"}
            /\ pc = "done" => PassSucceeded
        /\ (calls[k].obj = "enabled" /\ pc # "sync6") =>
               \E m \in CallsOf("SyncRoutes", 6) : m > k
    /\ \A m \in CallsOf("SyncRoutes", 6) :
           \E k \in CallsOfOp("CheckIPv6GlobalDisabled") :
               k < m /\ calls[k].obj = "enabled"
    /\ PassSucceeded =>
           (Synced(6) <=> \E k \in CallsOfOp("CheckIPv6GlobalDisabled") :
                              calls[k].obj = "enabled")

\* a pass returned success with IPv6 globally disabled: the IPv4 routes are
\* converged, the IPv6 manager's desired routes are not installed
C6_Witness ==
    /\ PassSucceeded
    /\ \E k \in CallsOfOp("CheckIPv6GlobalDisabled") : calls[k].obj = "disabled"
    /\ routes[4] = DesiredRoutes(routeV4Manager) /\ routes[4] # {}
    /\ routes[6] # DesiredRoutes(routeV6Manager)


\* the positions of the EnsureVlanIf calls made for the Subnet named s
EnsureCallsFor(s) == {m \in CallsOfOp("EnsureVlanIf") : calls[m].obj = s}

\* C7: for every underlay Subnet the VLAN interface is ensured iff
\* isUnderlayLocal is true, and then before the Subnet's SubnetInfo is added
\* and before any SyncRoutes of the pass; on a node not in the Network's
\* nodeList the SubnetInfo is still registered, with isUnderlayLocal and
\* isOverlay false, and no interface creation is attempted.
C7_VlanEnsuredIffLocal ==
    /\ \A k \in CallsOfOp("AddSubnetInfo") :
        NetworkOfCall(k).type = "Underlay" =>
            /\ (EnsureCallsFor(calls[k].obj) # {}) <=> InfoOfCall(k).isUnderlayLocal
            /\ \A m \in EnsureCallsFor(calls[k].obj) :
                /\ calls[m].ok
                /\ m < k
                /\ \A y \in CallsOfOp("SyncRoutes") : m < y
                /\ InfoOfCall(k).forwardNodeIfName \in links
                /\ InfoOfCall(k).forwardNodeIfName.kind = "vlan"
            /\ ~NodeIsMember(NetworkOfCall(k)) =>
                /\ ~InfoOfCall(k).isUnderlayLocal
                /\ ~InfoOfCall(k).isOverlay
                /\ EnsureCallsFor(calls[k].obj) = {}
                /\ InfoOfCall(k).forwardNodeIfName = NoIfName
    /\ \A m \in CallsOfOp("EnsureVlanIf") :
        /\ NetworkOfCall(m).type = "Underlay"
        /\ NodeIsMember(NetworkOfCall(m))
    /\ \A n \in 1..Len(subnetList) :
        (/\ CallsOfOp("SyncRoutes") # {}
         /\ Networks[SubnetObjects[subnetList[n]].network].type = "Underlay") =>
            \E k \in CallsOfOp("AddSubnetInfo") : calls[k].obj = subnetList[n]

\* one pass registered an underlay Subnet of a Network this node is in, with
\* its VLAN interface created, and one of a Network this node is not in, and
\* reached SyncRoutes
C7_Witness ==
    /\ \E k \in CallsOfOp("AddSubnetInfo") :
        /\ NetworkOfCall(k).type = "Underlay"
        /\ InfoOfCall(k).isUnderlayLocal
        /\ InfoOfCall(k).forwardNodeIfName \in links \ atStart.links
    /\ \E k \in CallsOfOp("AddSubnetInfo") :
        /\ NetworkOfCall(k).type = "Underlay"
        /\ ~NodeIsMember(NetworkOfCall(k))
    /\ CallsOfOp("SyncRoutes") # {}

\* the netID a Subnet resolves to: its own, else its Network's
ResolvedNetIDOfCall(k) ==
    IF SubnetOfCall(k).netID # Nil THEN SubnetOfCall(k).netID
    ELSE NetworkOfCall(k).netID

\* C8: for every Subnet of an Overlay Network the registered SubnetInfo has
\* isOverlay true, isUnderlayLocal false, autoNatOutgoing equal to the
\* Subnet's own flag and a forwarding interface name computed by the naming
\* function, no interface being created; for every Subnet of an Underlay
\* Network it has isOverlay false and autoNatOutgoing false whatever the flag.
C8_OverlayUnderlayFlags ==
    \A k \in CallsOfOp("AddSubnetInfo") :
        /\ NetworkOfCall(k).type = "Overlay" =>
            /\ InfoOfCall(k).isOverlay
            /\ ~InfoOfCall(k).isUnderlayLocal
            /\ InfoOfCall(k).autoNatOutgoing = SubnetOfCall(k).autoNatOutgoing
            /\ InfoOfCall(k).forwardNodeIfName =
                   IfName("vxlan", NodeVxlanIfName, ResolvedNetIDOfCall(k))
            /\ InfoOfCall(k).forwardNodeIfName \notin links
            /\ EnsureCallsFor(calls[k].obj) = {}
            /\ \E m \in CallsOfOp("GenerateVxlanNetIfName") :
                   m < k /\ calls[m].obj = calls[k].obj /\ calls[m].ok
        /\ NetworkOfCall(k).type = "Underlay" =>
            /\ ~InfoOfCall(k).isOverlay
            /\ ~InfoOfCall(k).autoNatOutgoing

\* one pass registered an overlay Subnet with the NAT flag set and an
\* underlay Subnet with the NAT flag set
C8_Witness ==
    /\ \E k \in CallsOfOp("AddSubnetInfo") :
        /\ NetworkOfCall(k).type = "Overlay"
        /\ SubnetOfCall(k).autoNatOutgoing
        /\ InfoOfCall(k).autoNatOutgoing
    /\ \E k \in CallsOfOp("AddSubnetInfo") :
        /\ NetworkOfCall(k).type = "Underlay"
        /\ SubnetOfCall(k).autoNatOutgoing
        /\ ~InfoOfCall(k).autoNatOutgoing

\* C9: the isUnderlayLocal passed to AddSubnetInfo is true iff the Subnet's
\* Network has type Underlay and this node's name is in its nodeList; for an
\* Overlay Network it is false, also with the node's name in the nodeList.
C9_IsUnderlayLocal ==
    \A k \in CallsOfOp("AddSubnetInfo") :
        /\ InfoOfCall(k).isUnderlayLocal <=>
               (NetworkOfCall(k).type = "Underlay" /\ NodeIsMember(NetworkOfCall(k)))
        /\ NetworkOfCall(k).type = "Overlay" => ~InfoOfCall(k).isUnderlayLocal

\* a Subnet of an Overlay Network that lists this node was registered, and
\* so was a Subnet of an Underlay Network that lists it
C9_Witness ==
    /\ \E k \in CallsOfOp("AddSubnetInfo") :
        /\ NetworkOfCall(k).type = "Overlay"
        /\ NodeIsMember(NetworkOfCall(k))
        /\ ~InfoOfCall(k).isUnderlayLocal
    /\ \E k \in CallsOfOp("AddSubnetInfo") :
        /\ NetworkOfCall(k).type = "Underlay"
        /\ NodeIsMember(NetworkOfCall(k))
        /\ InfoOfCall(k).isUnderlayLocal

\* the infos a manager holds, local and remote, are all of family f
AllOfFamily(m, f) ==
    /\ \A n \in 1..Len(m.subnetInfos) : m.subnetInfos[n].cidr.fam = f
    /\ \A n \in 1..Len(m.remoteSubnetInfos) : m.remoteSubnetInfos[n].cidr.fam = f

\* C10: address-family isolation: every SubnetInfo and RemoteSubnetInfo is
\* added to the manager its range's IP version selects, so the IPv4 manager
\* never holds a record of an IPv6 range nor the IPv6 manager one of an IPv4
\* range.
C10_FamilyIsolation ==
    /\ AllOfFamily(routeV4Manager, 4)
    /\ AllOfFamily(routeV6Manager, 6)
    /\ \A k \in CallsOfOp("AddSubnetInfo") :
           calls[k].fam = SubnetOfCall(k).range.version
    /\ \A k \in CallsOfOp("AddRemoteSubnetInfo") :
           calls[k].fam = RemoteSubnetObjects[calls[k].obj].range.version

\* the IPv4 manager holds a remote record and the IPv6 manager a local one,
\* staged by the same pass
C10_Witness ==
    /\ Len(routeV4Manager.remoteSubnetInfos) >= 1
    /\ Len(routeV6Manager.subnetInfos) >= 1
    /\ CallsOf("AddRemoteSubnetInfo", 4) # {}
    /\ CallsOf("AddSubnetInfo", 6) # {}

\* ---------------------------------------------------------------- C11
\* C11: every failure of a pass is returned to the caller as an error together
\* with a request to requeue, and the process goes on (the pass returns to the
\* work queue); a pass returns no error and no requeue only when every step it
\* executed succeeded, and a pass still running has had no failing step.
C11_FailureIsErrorAndRequeue ==
    /\ pc \notin {"idle", "done"} =>
        /\ result = NoResult
        /\ \A k \in 1..Len(calls) : calls[k].ok
    /\ pc = "done" =>
        /\ (\E k \in 1..Len(calls) : ~calls[k].ok) <=>
               (result.requeue /\ result.err # "")
        /\ (\A k \in 1..Len(calls) : calls[k].ok) <=> (result = Success)
        /\ result.requeue <=> result.err # ""
        /\ \A k \in 1..(Len(calls) - 1) : calls[k].ok
        /\ ENABLED Returned

\* a pass that staged Subnets and then met a failing step has returned
C11_Witness ==
    /\ PassFailed
    /\ Len(calls) > 4
    /\ ~LastCall.ok
    /\ CallsOfOp("AddSubnetInfo") # {}

\* ---------------------------------------------------------------- C12
\* the operations whose outcome depends on the listed objects only, not on
\* the boundary
DeterministicOps == {"parseSubnetSpecRangeMeta", "GenerateVxlanNetIfName",
                     "AddRemoteSubnetInfo"}

\* no call of the pass so far has failed
NoFailureSoFar == \A k \in 1..Len(calls) : calls[k].ok

\* C12 as stated: a pass that follows a successful pass, with no object
\* changed in between and no failing call, adds no route, removes no route and
\* creates no interface.
C12_SecondPassChangesNothing ==
    (prev # "none" /\ NoFailureSoFar) =>
        /\ routes = atStart.routes
        /\ links = atStart.links

\* C12: a pass that follows a successful pass, with no object changed in
\* between and no failing call, adds no route, removes no route and creates no
\* interface, provided it syncs the IPv6 routes only if the pass before it did
\* (the IPv6 capability check did not turn from disabled to enabled); and
\* such a pass never fails in an operation that depends on the objects only.
C12_SecondPassSameCapability ==
    /\ (prev # "none" /\ NoFailureSoFar /\ (Synced(6) => prev = "both")) =>
           /\ routes = atStart.routes
           /\ links = atStart.links
    /\ (prev # "none" /\ calls # <<>>) => LastCall.op \notin DeterministicOps \/ LastCall.ok

\* a second pass over Subnets of both families, with a VLAN interface and a
\* RemoteSubnet, has succeeded after a pass that synced both families
C12_Witness ==
    /\ prev = "both"
    /\ PassSucceeded
    /\ Synced(6)
    /\ routes[4] # {}
    /\ routes[6] # {}
    /\ links # {}
    /\ \E k \in CallsOfOp("AddRemoteSubnetInfo") : calls[k].ok

\* ---------------------------------------------------------------- C13
\* C13: after every successful SyncRoutes of a pass the installed routes of
\* that family are exactly the desired routes of the family's manager, no
\* more and no fewer; a pass that lists no Subnet and registers nothing still
\* calls SyncRoutes on the IPv4 manager, which removes every installed IPv4
\* route and adds none.
C13_InstalledEqualsDesired ==
    /\ \A f \in Families :
           Synced(f) => routes[f] = DesiredRoutes(Manager(f))
    /\ (subnetList = <<>> /\ CallsOfOp("AddRemoteSubnetInfo") = {}) =>
           /\ PassSucceeded => CallsOf("SyncRoutes", 4) # {}
           /\ \A f \in Families : Synced(f) => routes[f] = {}

\* a pass that listed nothing has synced the IPv4 manager and removed the
\* IPv4 routes an earlier pass had installed
C13_Witness ==
    /\ subnetList = <<>>
    /\ CallsOfOp("AddRemoteSubnetInfo") = {}
    /\ atStart.routes[4] # {}
    /\ Synced(4)
    /\ routes[4] = {}

\* ---------------------------------------------------------------- C14
\* the positions of a pass between its ResetInfos and its IPv4 SyncRoutes
RebuildWindow == {"loop", "listRemote", "remoteLoop", "sync4"}

\* C14: a component that reads a manager's desired state while a pass is
\* between its ResetInfos and its SyncRoutes never sees a half-rebuilt set:
\* what it reads is the set the manager held before the pass, or it holds the
\* SubnetInfo of every listed Subnet of the family.
C14_NoHalfRebuiltRead ==
    (observed.fam # 0 /\ observed.hasOld /\ observed.pc \in RebuildWindow) =>
        \/ observed.m = observed.old
        \/ observed.m.subnetInfos = ExpectedManager(observed.fam).subnetInfos

\* ---------------------------------------------------------------- C15
\* the calls that take the resolved netID and returned without error
NetIDCalls == {k \in CallsOfOp("AddSubnetInfo") : InfoOfCall(k).forwardNodeIfName # NoIfName}

\* C15: the netID given to EnsureVlanIf or to GenerateVxlanNetIfName is the
\* Subnet's own netID when that is set, whatever the Network's, and the
\* Network's netID when the Subnet's is unset; the naming function fails only
\* when neither is set.
C15_NetIDNilCoalescing ==
    /\ \A k \in NetIDCalls :
        /\ SubnetOfCall(k).netID # Nil =>
               InfoOfCall(k).forwardNodeIfName.id = SubnetOfCall(k).netID
        /\ SubnetOfCall(k).netID = Nil =>
               InfoOfCall(k).forwardNodeIfName.id = NetworkOfCall(k).netID
        /\ EnsureCallsFor(calls[k].obj) # {} =>
               IfName("vlan", NodeVlanIfName, InfoOfCall(k).forwardNodeIfName.id) \in links
    /\ \A m \in CallsOfOp("GenerateVxlanNetIfName") :
        ~calls[m].ok <=> (SubnetOfCall(m).netID = Nil /\ NetworkOfCall(m).netID = Nil)

\* one pass named the interface of a Subnet with a netID of its own that
\* differs from its Network's, and of a Subnet that has none
C15_Witness ==
    /\ \E k \in NetIDCalls :
        /\ SubnetOfCall(k).netID # Nil
        /\ NetworkOfCall(k).netID # Nil
        /\ SubnetOfCall(k).netID # NetworkOfCall(k).netID
    /\ \E k \in NetIDCalls :
        /\ SubnetOfCall(k).netID = Nil
        /\ InfoOfCall(k).forwardNodeIfName.id = NetworkOfCall(k).netID

\* ---------------------------------------------------------------- C16
\* the IPv6 capability check of the pass answered that IPv6 is disabled
V6Skipped ==
    \E k \in CallsOfOp("CheckIPv6GlobalDisabled") : calls[k].ok /\ calls[k].obj = "disabled"

\* C16: the firewall-rule collaborator is signalled at most once per pass,
\* only after the IPv4 SyncRoutes succeeded and the IPv6 SyncRoutes succeeded
\* or was skipped because IPv6 is disabled; never in a pass that returns an
\* error; exactly once, as its last call, in every pass that returns success.
C16_TriggerOnceOnSuccess ==
    /\ Cardinality(CallsOfOp("iptablesSyncTrigger")) <= 1
    /\ \A t \in CallsOfOp("iptablesSyncTrigger") :
        /\ \E k \in CallsOf("SyncRoutes", 4) : k < t /\ calls[k].ok
        /\ \/ \E k \in CallsOf("SyncRoutes", 6) : k < t /\ calls[k].ok
           \/ /\ V6Skipped
              /\ CallsOf("SyncRoutes", 6) = {}
        /\ \A k \in 1..Len(calls) : calls[k].ok
        /\ t = Len(calls)
        /\ PassSucceeded
    /\ PassFailed => CallsOfOp("iptablesSyncTrigger") = {}
    /\ PassSucceeded => Cardinality(CallsOfOp("iptablesSyncTrigger")) = 1

\* a pass has signalled the collaborator after it synced IPv4 and skipped IPv6
C16_Witness ==
    /\ PassSucceeded
    /\ V6Skipped
    /\ CallsOfOp("iptablesSyncTrigger") # {}
    /\ CallsOfOp("AddSubnetInfo") # {}

\* ---------------------------------------------------------------- C17
\* the calls of the pass made for RemoteSubnet objects
RemoteCalls ==
    CallsOfOp("ListRemote") \cup CallsOfOp("AddRemoteSubnetInfo")
        \cup {k \in CallsOfOp("parseSubnetSpecRangeMeta") : calls[k].obj \in RemoteSubnetNames}

\* C17: with multi-cluster federation off no RemoteSubnet is listed, parsed or
\* registered and both managers hold no RemoteSubnetInfo when SyncRoutes is
\* called; with federation on the RemoteSubnets are listed after every listed
\* Subnet was staged, every listed RemoteSubnet is parsed and registered
\* before SyncRoutes, and a failing parse or registration is the last call of
\* a pass that returns an error.
C17_RemoteOnlyWhenFederated ==
    /\ ~multiCluster =>
        /\ RemoteCalls = {}
        /\ CallsOfOp("SyncRoutes") # {} =>
               \A f \in Families : Manager(f).remoteSubnetInfos = <<>>
    /\ multiCluster =>
        /\ \A l \in CallsOfOp("ListRemote") :
            /\ Cardinality({k \in CallsOfOp("AddSubnetInfo") : k < l}) = Len(subnetList)
            /\ \A k \in RemoteCalls : l <= k
            /\ \A k \in CallsOfOp("AddSubnetInfo") : k < l
        /\ CallsOfOp("SyncRoutes") # {} =>
            /\ \E l \in CallsOfOp("ListRemote") : calls[l].ok
            /\ \A n \in 1..Len(remoteSubnetList) :
                /\ \E k \in CallsOfOp("parseSubnetSpecRangeMeta") :
                       calls[k].obj = remoteSubnetList[n] /\ calls[k].ok
                /\ \E k \in CallsOfOp("AddRemoteSubnetInfo") :
                       calls[k].obj = remoteSubnetList[n] /\ calls[k].ok
            /\ \A k \in RemoteCalls : \A y \in CallsOfOp("SyncRoutes") : k < y
        /\ \A k \in RemoteCalls :
            ~calls[k].ok => (k = Len(calls) /\ PassFailed)

\* with federation off and a RemoteSubnet in the store a pass has staged a
\* Subnet and returned success
C17_Witness ==
    /\ ~multiCluster
    /\ remoteSubnets # <<>>
    /\ PassSucceeded
    /\ CallsOfOp("AddSubnetInfo") # {}

\* ---------------------------------------------------------------- C18
\* the pass has returned because the List of the Subnets failed
ListFailed == pc = "done" /\ ~calls[1].ok /\ calls[1].op = "List"

\* C18: when the List of the Subnets fails the pass returns with a request to
\* requeue and that List as its only call (no ResetInfos, AddSubnetInfo,
\* AddRemoteSubnetInfo or SyncRoutes), the step leaves both managers' desired
\* sets, the kernel routes and the interfaces as they were, and they stay so
\* until the pass is back on the work queue.
C18_ListFailureTouchesNothing ==
    [][/\ (calls = <<>> /\ calls' # <<>> /\ ~calls'[1].ok) =>
            /\ calls' = <<Call("List", 0, "", FALSE)>>
            /\ result'.requeue
            /\ result'.err # ""
            /\ pc' = "done"
            /\ UNCHANGED <<managers, kernel>>
       /\ ListFailed =>
            /\ Len(calls) = 1
            /\ UNCHANGED <<managers, kernel>>]_vars

\* the List failed in a pass that found both managers' desired sets and the
\* kernel routes of an earlier pass, and left them
C18_Witness ==
    /\ ListFailed
    /\ result.requeue
    /\ routeV4Manager # EmptyManager
    /\ routeV6Manager # EmptyManager
    /\ routes[4] # {}
    /\ routes = atStart.routes
    /\ links = atStart.links

\* ---------------------------------------------------------------- C19
\* a call to the cluster state store or to the kernel fails
BoundaryFailure ==
    \/ ListSubnetsFails
    \/ GetNetworkFails
    \/ EnsureVlanIfFails
    \/ ListRemoteSubnetsFails
    \/ SyncRoutesV4Fails
    \/ CheckIPv6GlobalDisabledFails
    \/ SyncRoutesV6Fails

\* an object of the store changes
StoreChange == \/ CreateSubnet
               \/ DeleteSubnet
               \/ CreateRemoteSubnet
               \/ DeleteRemoteSubnet

\* from some point on the objects do not change and no boundary call fails
Settled == <>[][~BoundaryFailure /\ ~StoreChange]_vars

\* a pass over the objects of the store has returned success: the routes of
\* every family it synced are the desired routes of its objects and the
\* firewall-rule collaborator was signalled
Converged ==
    /\ PassSucceeded
    /\ subnetList = subnets
    /\ multiCluster => remoteSubnetList = remoteSubnets
    /\ \A f \in Families : Synced(f) => routes[f] = DesiredRoutes(ExpectedManager(f))
    /\ Synced(4)
    /\ CallsOfOp("iptablesSyncTrigger") # {}

\* every object of the store can be staged: the range of every Subnet and,
\* with federation on, of every RemoteSubnet parses, every overlay Subnet
\* resolves a netID, and no RemoteSubnet collides with a Subnet or with
\* another RemoteSubnet of its family
StoreValid ==
    /\ \A n \in 1..Len(subnets) :
        LET s == SubnetObjects[subnets[n]]
        IN  /\ ~parseSubnetSpecRangeMeta(s.range).err
            /\ GetNetworkType(Networks[s.network]) = "Overlay" =>
                   netID(s, Networks[s.network]) # Nil
    /\ multiCluster =>
        \A n \in 1..Len(remoteSubnets) :
            LET r == RemoteSubnetObjects[remoteSubnets[n]]
            IN  /\ ~parseSubnetSpecRangeMeta(r.range).err
                /\ \A m \in 1..Len(subnets) :
                       ~Overlap(r.range.cidr, SubnetObjects[subnets[m]].range.cidr)
                /\ \A m \in 1..Len(remoteSubnets) :
                       m # n => ~Overlap(r.range.cidr,
                                         RemoteSubnetObjects[remoteSubnets[m]].range.cidr)

\* C19 as stated: every pass terminates, and once the objects stop changing
\* and the boundary calls stop failing, passes that return success with the
\* routes of the synced families converged and the collaborator signalled
\* keep coming.
C19_EventualConvergence ==
    /\ (pc # "idle") ~> (pc = "done")
    /\ Settled => []<>Converged

\* C19: every pass terminates, and once the objects stop changing and the
\* boundary calls stop failing, passes that return success with the routes of
\* the synced families converged and the collaborator signalled keep coming,
\* provided every object left in the store can be staged.
C19_ConvergenceOfValidStore ==
    /\ (pc # "idle") ~> (pc = "done")
    /\ (Settled /\ <>[]StoreValid) => []<>Converged

\* after a change of the store a pass converged routes of both families
C19_Witness ==
    /\ Converged
    /\ StoreValid
    /\ changes = MaxChanges
    /\ subnetList # <<>>
    /\ routes[4] # {}
    /\ routes[6] # {}

=============================================================================
